---- MODULE Spec2Model ----
(***************************************************************************)
(* A model of the request service of AyushRauniyar/Sync_Async_ApiCall:     *)
(* the sliding-window RateLimiter and the endpoints of src/src/main.py,    *)
(* the RequestRecord lifecycle driven by RequestService and                *)
(* CallbackService of src/src/services.py, and the callback delivery with  *)
(* its retry loop and its per-domain circuit breaker.                      *)
(*                                                                         *)
(* Time is the reading of time.time(), counted in tenths of a second: the  *)
(* finest grain the code uses is the jitter of random.uniform(0.1, 0.3).   *)
(* The coroutines run on one asyncio event loop and are interleaved at     *)
(* their await points only: an action is the code between two awaits.      *)
(***************************************************************************)
EXTENDS Integers, Sequences, FiniteSets, TLC

VARIABLES
    now,                    \* time.time(), in tenths of a second
    environment,            \* main.py:78, os.getenv('ENVIRONMENT', 'development')
    os_environ,             \* os.environ: the value of ENVIRONMENT at present
    rate_limiter,           \* main.py:79-82, the RateLimiter instance
    records,                \* the requests table: request_id -> RequestRecord
    tasks,                  \* request_id -> frame of its process_async_callback coroutine
    failed_callbacks,       \* CallbackService.failed_callbacks: domain -> failure count
    circuit_breaker_state,  \* CallbackService.circuit_breaker_state: domain -> last failure time
    reply,                  \* the last answer given to a caller
    request,                \* history: the request received by the last step
    accepted,               \* history: client -> the times of its accepted is_allowed calls
    admit,                  \* history: the last is_allowed call and its answer
    refused,                \* history: the clients that had a call rejected
    trail,                  \* history: request_id -> the statuses the record took, in order
    circuit_log,            \* history: domain -> what an observer of the returns counted
    ret                     \* history: the return of send_callback made by the last step

vars == <<now, environment, os_environ, rate_limiter, records, tasks,
          failed_callbacks, circuit_breaker_state, reply, accepted, admit, refused, trail,
          circuit_log, ret, request>>

limiter_vars == <<rate_limiter, accepted, admit, refused>>
ledger_vars == <<records, tasks, reply, trail>>
circuit_vars == <<failed_callbacks, circuit_breaker_state, circuit_log>>

None == "none"

----------------------------------------------------------------------------
(* Bounds of the model.                                                    *)

\* The clock of SpecRate stops after this many seconds.
MaxSecondsRate == 3
\* RateLimiter(max_requests, window_seconds) is constructed with arguments
\* 1..MaxLimit and 1..MaxWindow (main.py passes 50/60 and 1000/60).
MaxLimit == 2
MaxWindow == 2
\* SpecRate stops calling is_allowed once this many calls were accepted.
MaxAccepted == 4
\* The requests accepted by SpecCircuit, SpecLedger and SpecDeliver.
MaxRecordsCircuit == 7
MaxRecordsLedger == 3
MaxRecordsDeliver == 1
\* The background tasks that may be unfinished at one time.
MaxInFlight == 2
\* The clocks of SpecCircuit, SpecLedger and SpecDeliver stop here (tenths).
MaxTimeCircuit == 960
MaxTimeLedger == 100
MaxTimeDeliver == 40
\* SpecEgress and SpecIngress take this many rows, and the clock of
\* SpecIngress stops after this many seconds.
MaxRecordsEgress == 2
MaxRecordsIngress == 2
MaxSecondsIngress == 1
MaxRecordsLive == 2
MaxRecordsKey == 3
MaxRecordsMode == 2
MaxRecordsPool == 11
MaxRecordsLookup == 2
MaxRecordsRace == 6
MaxRecordsStray == 2
\* The clock step of SpecCircuit and SpecLedger: longer than any backoff.
CoarseStep == 25

Clients == {"10.0.0.1", "10.0.0.2"}

----------------------------------------------------------------------------
(* Constants of the program.                                               *)

\* services.py:148-151, CallbackService.__init__ (times in tenths of a second).
max_retries == 3
retry_delay == 10
circuit_breaker_threshold == 5
circuit_breaker_reset_timeout == 600
\* services.py:252, random.uniform(0.1, 0.3).
JitterMin == 1
JitterMax == 3
Jitters == JitterMin..JitterMax
\* services.py:210-214, aiohttp.ClientTimeout(total=10).
ClientTimeoutTotal == 100

\* services.py:205, aiohttp.TCPConnector(limit_per_host=10).
limit_per_host == 10

\* models.py:13-19, RequestStatus; models.py:8-10, RequestMode.
PENDING == "pending"
PROCESSING == "processing"
COMPLETED == "completed"
FAILED == "failed"
CALLBACK_SENT == "callback_sent"
CALLBACK_FAILED == "callback_failed"
SYNC == "sync"
ASYNC == "async"

----------------------------------------------------------------------------
(* Dictionaries: a Python dict is a function whose DOMAIN is its key set.  *)

EmptyDict == <<>>

DictGet(d, k, default) == IF k \in DOMAIN d THEN d[k] ELSE default

DictSet(d, k, v) == (k :> v) @@ d

DictDel(d, k) == [x \in DOMAIN d \ {k} |-> d[x]]

----------------------------------------------------------------------------
(* RateLimiter, src/src/main.py:30-75.                                     *)

\* window_seconds is in seconds, the clock in tenths.
WindowStart(t, window_seconds) == t - window_seconds * 10

\* main.py:44-45: while client_requests and client_requests[0] <= now - window: popleft()
RECURSIVE PopOldStrict(_, _)
PopOldStrict(q, cutoff) ==
    IF q # <<>> /\ Head(q) < cutoff THEN PopOldStrict(Tail(q), cutoff) ELSE q
RECURSIVE PopOld(_, _)
PopOld(q, cutoff) ==
    IF q # <<>> /\ Head(q) <= cutoff THEN PopOld(Tail(q), cutoff) ELSE q

\* main.py:48: the limit test, made on the pruned deque.
OverLimitOffByOne(q, max_requests) == Len(q) > max_requests
OverLimit(q, max_requests) == Len(q) >= max_requests

\* main.py:38-53, RateLimiter.is_allowed: the deque of the client after the
\* call, and the answer.
IsAllowedKeepsOld(q, t, rl) ==
    IF OverLimit(q, rl.max_requests)
    THEN [queue |-> q, allowed |-> FALSE]
    ELSE [queue |-> Append(q, t), allowed |-> TRUE]
IsAllowedLosesConcurrent(q, t, rl) ==
    LET pruned == PopOld(q, WindowStart(t, rl.window_seconds))
    IN  IF OverLimit(pruned, rl.max_requests)
        THEN [queue |-> pruned, allowed |-> FALSE]
        ELSE IF pruned # <<>> /\ pruned[Len(pruned)] = t
        THEN [queue |-> pruned, allowed |-> TRUE]
        ELSE [queue |-> Append(pruned, t), allowed |-> TRUE]
IsAllowedRecordsRejected(q, t, rl) ==
    LET pruned == PopOld(q, WindowStart(t, rl.window_seconds))
    IN  IF OverLimit(pruned, rl.max_requests)
        THEN [queue |-> Append(Tail(pruned), t), allowed |-> FALSE]
        ELSE [queue |-> Append(pruned, t), allowed |-> TRUE]
IsAllowedOn(q, t, rl) ==
    LET pruned == PopOld(q, WindowStart(t, rl.window_seconds))
    IN  IF OverLimit(pruned, rl.max_requests)
        THEN [queue |-> pruned, allowed |-> FALSE]
        ELSE [queue |-> Append(pruned, t), allowed |-> TRUE]

\* self.requests is a defaultdict(deque): reading a missing key creates it.
ClientQueueShared(client_ip) ==
    DictGet(rate_limiter.requests, CHOOSE c \in Clients : TRUE, <<>>)
ClientQueue(client_ip) == DictGet(rate_limiter.requests, client_ip, <<>>)

is_allowed(client_ip) ==
    LET r == IsAllowedOn(ClientQueue(client_ip), now, rate_limiter)
    IN  /\ rate_limiter' = [rate_limiter EXCEPT
                              !.requests = DictSet(@, client_ip, r.queue)]
        /\ admit' = [client |-> client_ip, at |-> now, allowed |-> r.allowed]
        /\ accepted' = IF r.allowed
                       THEN [accepted EXCEPT ![client_ip] = Append(@, now)]
                       ELSE accepted
        /\ refused' = IF r.allowed THEN refused ELSE refused \cup {client_ip}

\* Before any call of is_allowed.
NoAdmit == [client |-> None, at |-> 0, allowed |-> FALSE]

\* main.py:84-101, check_rate_limit: development skips the limiter.
check_rate_limit(client_ip) ==
    IF environment # "production"
    THEN UNCHANGED limiter_vars
    ELSE is_allowed(client_ip)

\* Whether the dependency lets the request through (to be read after the step).
RateLimited == environment = "production" /\ ~admit'.allowed

\* main.py:55-75, RateLimiter.get_stats: prunes every deque.
get_stats ==
    rate_limiter' = [rate_limiter EXCEPT !.requests =
        [ip \in DOMAIN @ |->
            PopOld(@[ip], WindowStart(now, rate_limiter.window_seconds))]]

----------------------------------------------------------------------------
(* Callback URLs and their validation, src/src/main.py:245-339.            *)

\* A URL as urlparse reads it: scheme, hostname and port (None: no port).
Url(scheme, host, port) == [scheme |-> scheme, host |-> host, port |-> port]

\* What ipaddress.ip_address accepts, and its is_private / is_loopback.
IpLiterals == {"127.0.0.1", "10.0.0.7", "169.254.169.254", "8.8.8.8", "0.0.0.0"}
PrivateIps == {"127.0.0.1", "10.0.0.7", "169.254.169.254", "0.0.0.0"}
LoopbackIps == {"127.0.0.1"}

\* main.py:283 and main.py:313-317.
blocked_hosts == {"localhost", "127.0.0.1", "0.0.0.0", "::1", "metadata.google.internal"}
metadata_domains == {"metadata.google.internal", "169.254.169.254", "metadata.azure.com"}

\* models.py:28, callback_url: HttpUrl; a body that fails it is answered 422
\* before the handler runs.
HttpUrlOk(url) == url.scheme \in {"http", "https"}

\* main.py:245-339: "ok", or the code of the 400 answer.
ValidateCallbackUrlMetadataInProduction(url, env) ==
    IF url.scheme \notin {"http", "https"} THEN "INVALID_CALLBACK_URL"
    ELSE IF url.host \in blocked_hosts /\ env = "production" THEN "BLOCKED_HOST"
    ELSE IF url.host \in IpLiterals
            /\ (url.host \in PrivateIps \/ url.host \in LoopbackIps)
            /\ env = "production" THEN "PRIVATE_IP_BLOCKED"
    ELSE IF url.host \in metadata_domains /\ env = "production"
    THEN "METADATA_BLOCKED"
    ELSE "ok"
ValidateCallbackUrlAlwaysStrict(url, env) ==
    IF url.scheme \notin {"http", "https"} THEN "INVALID_CALLBACK_URL"
    ELSE IF url.host \in blocked_hosts THEN "BLOCKED_HOST"
    ELSE IF url.host \in IpLiterals
            /\ (url.host \in PrivateIps \/ url.host \in LoopbackIps)
    THEN "PRIVATE_IP_BLOCKED"
    ELSE IF url.host \in metadata_domains THEN "METADATA_BLOCKED"
    ELSE "ok"
ValidateCallbackUrl(url, env) ==
    IF url.scheme \notin {"http", "https"} THEN "INVALID_CALLBACK_URL"
    ELSE IF url.host \in blocked_hosts /\ env = "production" THEN "BLOCKED_HOST"
    ELSE IF url.host \in IpLiterals
            /\ (url.host \in PrivateIps \/ url.host \in LoopbackIps)
            /\ env = "production" THEN "PRIVATE_IP_BLOCKED"
    ELSE IF url.host \in metadata_domains THEN "METADATA_BLOCKED"
    ELSE "ok"

\* services.py:155-158, _get_domain: urlparse(url).netloc, the host with its port.
get_domain(url) == [host |-> url.host, port |-> url.port]

----------------------------------------------------------------------------
(* The requests table, src/src/database.py:34-47, and RequestService,      *)
(* src/src/services.py:15-141.                                             *)

\* services.py:21-38, create_request_record: the row as inserted.
NewRecord(mode, callback_url) ==
    [mode |-> mode, status |-> PENDING, callback_url |-> callback_url,
     result |-> FALSE, callback_attempts |-> 0, created_at |-> now,
     completed_at |-> -1, error_message |-> None]

\* uuid.uuid4(): a fresh identifier.
NewId == Cardinality(DOMAIN records) + 1

\* services.py:53-54: completed_at is stamped on these statuses.
StampedStatuses == {COMPLETED, FAILED, CALLBACK_SENT}

\* services.py:40-58, update_request_status on a row that exists.
UpdateRequestStatus(rec, status, has_result, error_message, t) ==
    [rec EXCEPT
        !.status = status,
        !.result = IF has_result THEN TRUE ELSE @,
        !.completed_at = IF status \in StampedStatuses THEN t ELSE @,
        !.error_message = IF error_message # None THEN error_message ELSE @]

\* What a caller is answered.
Reply(code, detail, id) ==
    [code |-> code, detail |-> detail, request_id |-> id, retry_after |-> 0]
NoReply == Reply(0, None, 0)

\* main.py:92-101: the 429 answer of check_rate_limit.
RateLimitReplyRetryAfterLimit ==
    [Reply(429, "Rate limit exceeded", 0) EXCEPT
        !.retry_after = rate_limiter.max_requests]
RateLimitReply ==
    [Reply(429, "Rate limit exceeded", 0) EXCEPT
        !.retry_after = rate_limiter.window_seconds]

\* A request as an endpoint receives it: the caller, whether the body's data
\* passes WorkProcessor.validate_input, and the callback URL (async only).
Request(endpoint, client_ip, valid, url) ==
    [endpoint |-> endpoint, client |-> client_ip, valid |-> valid, url |-> url,
     id |-> 0]
NoRequest == Request(None, None, FALSE, Url(None, None, None))

\* services.py:108-141, process_sync_request: the row it leaves, with the
\* statuses it went through. work is "ok" or the exception process_work
\* raised; commit_ok tells whether the commit of the completed row went
\* through (if it raises, the handler at 135-141 marks the row failed).
SyncRecord(work, commit_ok) ==
    LET r0 == NewRecord(SYNC, None)
        r1 == UpdateRequestStatus(r0, PROCESSING, FALSE, None, now)
        r2 == UpdateRequestStatus(r1, COMPLETED, TRUE, None, now)
    IN  IF work # "ok"
        THEN UpdateRequestStatus(r1, FAILED, FALSE, work, now)
        ELSE IF commit_ok THEN r2
        ELSE UpdateRequestStatus(r2, FAILED, FALSE, "commit", now)

SyncTrail(work, commit_ok) ==
    IF work # "ok" THEN <<PENDING, PROCESSING, FAILED>>
    ELSE IF commit_ok THEN <<PENDING, PROCESSING, COMPLETED>>
    ELSE <<PENDING, PROCESSING, COMPLETED, FAILED>>

\* main.py:193-212: ValueError is answered 400, any other exception 500.
SyncReplyHidesError(work, commit_ok, id) == Reply(200, "result", id)
SyncReply(work, commit_ok, id) ==
    IF work = "ValueError" THEN Reply(400, "VALIDATION_ERROR", 0)
    ELSE IF work = "ok" /\ commit_ok THEN Reply(200, "result", id)
    ELSE Reply(500, "PROCESSING_ERROR", 0)

WorkOutcomes == {"ok", "ValueError", "RuntimeError"}

----------------------------------------------------------------------------
(* The circuit breaker of CallbackService, src/src/services.py:155-188.    *)

\* services.py:160-176, _is_circuit_open: the answer, and the two
\* dictionaries after the call (the call resets an expired open circuit).
CircuitKept(fc, cbs, open) == [open |-> open, fc |-> fc, cbs |-> cbs]

IsCircuitOpenStrictThreshold(fc, cbs, domain, t) ==
    IF domain \notin DOMAIN cbs THEN CircuitKept(fc, cbs, FALSE)
    ELSE IF DictGet(fc, domain, 0) <= circuit_breaker_threshold
    THEN CircuitKept(fc, cbs, FALSE)
    ELSE IF t - cbs[domain] > circuit_breaker_reset_timeout
    THEN [open |-> FALSE, fc |-> DictSet(fc, domain, 0),
          cbs |-> DictDel(cbs, domain)]
    ELSE CircuitKept(fc, cbs, TRUE)
IsCircuitOpenKeepsCount(fc, cbs, domain, t) ==
    IF domain \notin DOMAIN cbs THEN CircuitKept(fc, cbs, FALSE)
    ELSE IF DictGet(fc, domain, 0) < circuit_breaker_threshold
    THEN CircuitKept(fc, cbs, FALSE)
    ELSE IF t - cbs[domain] > circuit_breaker_reset_timeout
    THEN [open |-> FALSE, fc |-> fc, cbs |-> DictDel(cbs, domain)]
    ELSE CircuitKept(fc, cbs, TRUE)
IsCircuitOpenRestamps(fc, cbs, domain, t) ==
    IF domain \notin DOMAIN cbs THEN CircuitKept(fc, cbs, FALSE)
    ELSE IF DictGet(fc, domain, 0) < circuit_breaker_threshold
    THEN CircuitKept(fc, cbs, FALSE)
    ELSE IF t - cbs[domain] > circuit_breaker_reset_timeout
    THEN [open |-> FALSE, fc |-> DictSet(fc, domain, 0),
          cbs |-> DictDel(cbs, domain)]
    ELSE CircuitKept(fc, DictSet(cbs, domain, t), TRUE)
IsCircuitOpen(fc, cbs, domain, t) ==
    IF domain \notin DOMAIN cbs THEN CircuitKept(fc, cbs, FALSE)
    ELSE IF DictGet(fc, domain, 0) < circuit_breaker_threshold
    THEN CircuitKept(fc, cbs, FALSE)
    ELSE IF t - cbs[domain] > circuit_breaker_reset_timeout
    THEN [open |-> FALSE, fc |-> DictSet(fc, domain, 0),
          cbs |-> DictDel(cbs, domain)]
    ELSE CircuitKept(fc, cbs, TRUE)

\* services.py:178-181, _record_callback_failure.
RecordCallbackFailureLosesUpdate(fc, cbs, domain, t) ==
    [fc |-> DictSet(fc, domain, 1), cbs |-> DictSet(cbs, domain, t)]
RecordCallbackFailureCountsAttempts(fc, cbs, domain, t) ==
    [fc |-> DictSet(fc, domain, DictGet(fc, domain, 0) + max_retries),
     cbs |-> DictSet(cbs, domain, t)]
RecordCallbackFailure(fc, cbs, domain, t) ==
    [fc |-> DictSet(fc, domain, DictGet(fc, domain, 0) + 1),
     cbs |-> DictSet(cbs, domain, t)]

\* services.py:183-188, _record_callback_success.
RecordCallbackSuccessKeepsCount(fc, cbs, domain) ==
    [fc |-> fc, cbs |-> DictDel(cbs, domain)]
RecordCallbackSuccess(fc, cbs, domain) ==
    [fc |-> DictDel(fc, domain), cbs |-> DictDel(cbs, domain)]

\* What an observer of the returns of send_callback knows of a domain:
\*   run     its deliveries that failed since the last success and since the
\*           last check of the circuit made after the reset timeout ran out
\*   lit     its deliveries that failed since the last success
\*   last    the time of the last failed delivery (-1: none since a success)
\*   ok      the last delivery that made an attempt succeeded
\*   cleared the failures that this success ended
NoLog == [run |-> 0, lit |-> 0, last |-> -1, ok |-> FALSE, cleared |-> 0]
LogOf(domain) == DictGet(circuit_log, domain, NoLog)

Expired(log, t) == log.last >= 0 /\ t - log.last > circuit_breaker_reset_timeout

\* The observer sees a check of the circuit at time t.
LogCheck(log, t) == IF Expired(log, t) THEN [log EXCEPT !.run = 0] ELSE log
LogFailure(log, t) ==
    [log EXCEPT !.run = @ + 1, !.lit = @ + 1, !.last = t, !.ok = FALSE]
LogSuccess(log) ==
    [run |-> 0, lit |-> 0, last |-> -1, ok |-> TRUE, cleared |-> log.lit]

----------------------------------------------------------------------------
(* The frame of one process_async_callback coroutine, with the send_callback *)
(* call it makes, src/src/services.py:190-317.                             *)

\* What send_callback found when it was called.
\*   run, lit  the observer's counts when the call was made
\*   age       the time since the last failed delivery (-1: none)
\*   elapsed   the time since circuit_breaker_state[domain] (-1: no entry)
\*   before    failed_callbacks[domain] before _is_circuit_open, and
\*   after     after it
\*   open      the answer of _is_circuit_open
NoCall == [run |-> 0, lit |-> 0, age |-> -1, elapsed |-> -1, before |-> 0,
           after |-> 0, open |-> FALSE]

\*   pc        "scheduled" | "work" | "post" | "sleep" | "done"
\*   attempt   the loop variable of send_callback
\*   since     when the pending session.post was started
\*   wake      when the pending asyncio.sleep ends
\* and, for the properties: the attempts made, their outcomes, the delays
\* asked of asyncio.sleep, the times slept, what the call found (call), and
\* the deliveries to the same domain that failed while this one ran (others).
Frame(pc) ==
    [pc |-> pc, attempt |-> 0, since |-> 0, wake |-> 0, attempts |-> 0,
     outcomes |-> <<>>, delays |-> <<>>, gaps |-> <<>>, call |-> NoCall,
     others |-> 0]

\* The return of send_callback: the frame's history and the answer.
Return(id, domain, result, f, log) ==
    [id |-> id, domain |-> domain, result |-> result,
     attempts |-> f.attempts, outcomes |-> f.outcomes, delays |-> f.delays,
     gaps |-> f.gaps, call |-> f.call, others |-> f.others,
     prev_ok |-> log.ok, cleared |-> log.cleared]
NoRet ==
    [id |-> 0, domain |-> get_domain(Url(None, None, None)), result |-> FALSE,
     attempts |-> 0, outcomes |-> <<>>, delays |-> <<>>, gaps |-> <<>>,
     call |-> NoCall, others |-> 0, prev_ok |-> FALSE, cleared |-> 0]

InFlight == {id \in DOMAIN tasks : tasks[id].pc # "done"}
At(pc) == {id \in DOMAIN tasks : tasks[id].pc = pc}

DomainOf(id) == get_domain(records[id].callback_url)

----------------------------------------------------------------------------
(* The endpoints, src/src/main.py:152-385.                                 *)

\* main.py:152-212, POST /sync. valid is the answer of
\* WorkProcessor.validate_input on the body's data.
SyncEndpoint(client_ip, valid, work, commit_ok) ==
    /\ check_rate_limit(client_ip)
    /\ IF RateLimited
       THEN /\ reply' = RateLimitReply
            /\ UNCHANGED <<records, trail>>
       ELSE IF ~valid
       THEN /\ reply' = Reply(400, "INVALID_INPUT", 0)
            /\ UNCHANGED <<records, trail>>
       ELSE /\ records' = DictSet(records, NewId, SyncRecord(work, commit_ok))
            /\ trail' = DictSet(trail, NewId, SyncTrail(work, commit_ok))
            /\ reply' = SyncReply(work, commit_ok, NewId)
    /\ request' = Request("sync", client_ip, valid, Url(None, None, None))
    /\ ret' = NoRet
    /\ UNCHANGED <<now, environment, os_environ, tasks, circuit_vars>>

\* main.py:279, os.getenv('ENVIRONMENT', 'development'), read again by every
\* call of async_endpoint.
getenv == os_environ

\* main.py:351-355, background_tasks.add_task: the coroutine is queued, to be
\* started after the response was sent.
add_task_awaited == Frame("work")
add_task == Frame("scheduled")

\* main.py:215-385, POST /async: the limiter, the body's HttpUrl, the input
\* validation, the callback URL validation; then the row is created and the
\* background task is added.
AsyncEndpointPersistsFirst(client_ip, valid, url) ==
    /\ check_rate_limit(client_ip)
    /\ IF RateLimited
       THEN /\ reply' = RateLimitReply
            /\ UNCHANGED <<records, tasks, trail>>
       ELSE IF ~HttpUrlOk(url)
       THEN /\ reply' = Reply(422, "url_scheme", 0)
            /\ UNCHANGED <<records, tasks, trail>>
       ELSE IF ~valid
       THEN /\ reply' = Reply(400, "INVALID_INPUT", 0)
            /\ UNCHANGED <<records, tasks, trail>>
       ELSE /\ records' = DictSet(records, NewId, NewRecord(ASYNC, url))
            /\ tasks' = DictSet(tasks, NewId, add_task)
            /\ trail' = DictSet(trail, NewId, <<PENDING>>)
            /\ reply' = IF ValidateCallbackUrl(url, getenv) # "ok"
                        THEN Reply(400, ValidateCallbackUrl(url, getenv), 0)
                        ELSE Reply(200, "accepted", NewId)
    /\ request' = Request("async", client_ip, valid, url)
    /\ ret' = NoRet
    /\ UNCHANGED <<now, environment, os_environ, circuit_vars>>
AsyncEndpoint(client_ip, valid, url) ==
    /\ check_rate_limit(client_ip)
    /\ IF RateLimited
       THEN /\ reply' = RateLimitReply
            /\ UNCHANGED <<records, tasks, trail>>
       ELSE IF ~HttpUrlOk(url)
       THEN /\ reply' = Reply(422, "url_scheme", 0)
            /\ UNCHANGED <<records, tasks, trail>>
       ELSE IF ~valid
       THEN /\ reply' = Reply(400, "INVALID_INPUT", 0)
            /\ UNCHANGED <<records, tasks, trail>>
       ELSE IF ValidateCallbackUrl(url, getenv) # "ok"
       THEN /\ reply' = Reply(400, ValidateCallbackUrl(url, getenv), 0)
            /\ UNCHANGED <<records, tasks, trail>>
       ELSE /\ records' = DictSet(records, NewId, NewRecord(ASYNC, url))
            /\ tasks' = DictSet(tasks, NewId, add_task)
            /\ trail' = DictSet(trail, NewId, <<PENDING>>)
            /\ reply' = Reply(200, "accepted", NewId)
    /\ request' = Request("async", client_ip, valid, url)
    /\ ret' = NoRet
    /\ UNCHANGED <<now, environment, os_environ, circuit_vars>>

\* services.py:319-343, get_circuit_breaker_stats: _is_circuit_open is
\* called for every domain either dictionary tracks.
RECURSIVE StatsChecks(_, _, _, _)
StatsChecks(fc, cbs, domains, t) ==
    IF domains = {} THEN [fc |-> fc, cbs |-> cbs]
    ELSE LET d == CHOOSE x \in domains : TRUE
             c == IsCircuitOpen(fc, cbs, d, t)
         IN  StatsChecks(c.fc, c.cbs, domains \ {d}, t)

\* main.py:404-422 and services.py:60-77, GET /requests/{request_id}: the
\* row is looked up; no row is answered 404.
RequestDetailsAlwaysFound(request_id) == Reply(200, "details", request_id)
RequestDetails(request_id) ==
    IF request_id \in DOMAIN records
    THEN Reply(200, "details", request_id)
    ELSE Reply(404, "Request not found", 0)

get_request_details(request_id) ==
    /\ reply' = RequestDetails(request_id)
    /\ request' = [Request("details", None, TRUE, Url(None, None, None))
                      EXCEPT !.id = request_id]
    /\ ret' = NoRet
    /\ UNCHANGED <<now, environment, os_environ, records, tasks, trail,
                   limiter_vars, circuit_vars>>

\* services.py:40-58, update_request_status on the table: the row is looked
\* up and written if there is one; without a row nothing is done.
update_request_status_upserts(table, request_id, status, error_message, t) ==
    DictSet(table, request_id,
            UpdateRequestStatus(NewRecord(SYNC, None), status, FALSE,
                                error_message, t))
update_request_status(table, request_id, status, error_message, t) ==
    IF request_id \in DOMAIN table
    THEN [table EXCEPT ![request_id] =
             UpdateRequestStatus(@, status, FALSE, error_message, t)]
    ELSE table

\* update_request_status called with an id that has no row.
UpdateUnknown(request_id, status, error_message) ==
    /\ request_id \notin DOMAIN records
    /\ records' = update_request_status(records, request_id, status,
                                        error_message, now)
    /\ request' = [Request("update", None, TRUE, Url(None, None, None))
                      EXCEPT !.id = request_id]
    /\ ret' = NoRet
    /\ UNCHANGED <<now, environment, os_environ, tasks, reply, trail,
                   limiter_vars, circuit_vars>>

\* services.py:261-271 and 316-317, process_async_callback called with an id
\* that has no row: "not found" is printed and the coroutine returns.
ProcessUnknown(request_id) ==
    /\ request_id \notin DOMAIN records
    /\ request' = [Request("task", None, TRUE, Url(None, None, None))
                      EXCEPT !.id = request_id]
    /\ ret' = NoRet
    /\ UNCHANGED <<now, environment, os_environ, ledger_vars, limiter_vars,
                   circuit_vars>>

\* main.py:440-518, GET /stats.
GetStats ==
    LET tracked == DOMAIN failed_callbacks \cup DOMAIN circuit_breaker_state
        c == StatsChecks(failed_callbacks, circuit_breaker_state, tracked, now)
    IN  /\ get_stats
        /\ failed_callbacks' = c.fc
        /\ circuit_breaker_state' = c.cbs
        /\ circuit_log' = [d \in DOMAIN circuit_log |->
                              IF d \in tracked THEN LogCheck(circuit_log[d], now)
                              ELSE circuit_log[d]]
        /\ reply' = Reply(200, "stats", 0)
        /\ request' = Request("stats", None, TRUE, Url(None, None, None))
        /\ ret' = NoRet
        /\ UNCHANGED <<now, environment, os_environ, records, tasks, trail, accepted,
                       admit, refused>>

----------------------------------------------------------------------------
(* process_async_callback and send_callback, src/src/services.py:190-317.  *)

\* services.py:201 and 251: for attempt in range(max_retries); the last
\* attempt is not followed by a sleep.
IsLastAttemptOneEarly(attempt) == attempt >= max_retries - 2
IsLastAttempt(attempt) == ~(attempt < max_retries - 1)

\* services.py:231-248: how a session.post ends: with a response, with
\* asyncio.TimeoutError, or with aiohttp.ClientError.
Response(status) == [kind |-> "response", status |-> status]
TimeoutError == [kind |-> "timeout", status |-> 0]
ClientError == [kind |-> "client_error", status |-> 0]

\* services.py:236: the only answer taken for a success.
IsSuccess(outcome) == outcome.kind = "response" /\ outcome.status = 200

\* services.py:252-253: delay = retry_delay * (2 ** attempt) + jitter.
BackoffDelayFlat(attempt, jitter) == retry_delay + jitter
BackoffDelay(attempt, jitter) == retry_delay * (2 ^ attempt) + jitter

\* services.py:299-313: the status written after send_callback returned,
\* then db.commit(); if the commit raises, the handler marks the row failed.
FinishedKeepsStatus(rec, delivered, commit_ok, t) == rec
Finished(rec, delivered, commit_ok, t) ==
    LET r == IF delivered
             THEN [rec EXCEPT !.status = CALLBACK_SENT,
                              !.callback_attempts = max_retries]
             ELSE [rec EXCEPT !.status = CALLBACK_FAILED,
                              !.error_message = "Callback failed after 3 attempts"]
    IN  IF commit_ok THEN r
        ELSE [r EXCEPT !.status = FAILED, !.error_message = "commit",
                       !.completed_at = t]

FinishedTrail(delivered, commit_ok) ==
    <<IF delivered THEN CALLBACK_SENT ELSE CALLBACK_FAILED>>
    \o (IF commit_ok THEN <<>> ELSE <<FAILED>>)

\* services.py:316-317: process_async_callback ends; the coroutine is not run
\* again.
TaskOverRequeued == Frame("scheduled")
TaskOver == Frame("done")

\* services.py:263-275: the task starts, marks the row processing and awaits
\* the work.
TaskStart(id) ==
    /\ id \in At("scheduled")
    /\ records' = [records EXCEPT ![id].status = PROCESSING]
    /\ trail' = [trail EXCEPT ![id] = Append(@, PROCESSING)]
    /\ tasks' = [tasks EXCEPT ![id].pc = "work"]
    /\ ret' = NoRet
    /\ request' = NoRequest
    /\ UNCHANGED <<now, environment, os_environ, reply, limiter_vars, circuit_vars>>

\* services.py:308-314: process_work_async raised.
WorkRaisesCountsFailure(id) ==
    /\ id \in At("work")
    /\ records' = [records EXCEPT ![id].status = FAILED,
                                  ![id].error_message = "work",
                                  ![id].completed_at = now]
    /\ trail' = [trail EXCEPT ![id] = Append(@, FAILED)]
    /\ tasks' = [tasks EXCEPT ![id] = TaskOver]
    /\ LET f == RecordCallbackFailure(failed_callbacks, circuit_breaker_state,
                                      DomainOf(id), now)
       IN  /\ failed_callbacks' = f.fc
           /\ circuit_breaker_state' = f.cbs
    /\ ret' = NoRet
    /\ request' = NoRequest
    /\ UNCHANGED <<now, environment, os_environ, reply, limiter_vars, circuit_log>>
WorkRaises(id) ==
    /\ id \in At("work")
    /\ records' = [records EXCEPT ![id].status = FAILED,
                                  ![id].error_message = "work",
                                  ![id].completed_at = now]
    /\ trail' = [trail EXCEPT ![id] = Append(@, FAILED)]
    /\ tasks' = [tasks EXCEPT ![id] = TaskOver]
    /\ ret' = NoRet
    /\ request' = NoRequest
    /\ UNCHANGED <<now, environment, os_environ, reply, limiter_vars, circuit_vars>>

\* services.py:281-297 and 190-227: the work returned; the row is marked
\* completed and send_callback is called: it returns False at once when the
\* circuit is open, and starts the first POST otherwise.
WorkReturns(id, commit_ok) ==
    /\ id \in At("work")
    /\ LET domain == DomainOf(id)
           log == LogCheck(LogOf(domain), now)
           c == IsCircuitOpen(failed_callbacks, circuit_breaker_state, domain, now)
           call == [run |-> log.run, lit |-> log.lit,
                    age |-> IF log.last < 0 THEN -1 ELSE now - log.last,
                    elapsed |-> IF domain \in DOMAIN circuit_breaker_state
                                THEN now - circuit_breaker_state[domain]
                                ELSE -1,
                    before |-> DictGet(failed_callbacks, domain, 0),
                    after |-> DictGet(c.fc, domain, 0),
                    open |-> c.open]
           f == [tasks[id] EXCEPT !.call = call]
           done == [records[id] EXCEPT !.status = COMPLETED, !.result = TRUE,
                                       !.completed_at = now]
       IN  /\ failed_callbacks' = c.fc
           /\ circuit_breaker_state' = c.cbs
           /\ circuit_log' = DictSet(circuit_log, domain, log)
           /\ IF c.open
              THEN /\ ret' = Return(id, domain, FALSE, f, log)
                   /\ records' = [records EXCEPT
                                    ![id] = Finished(done, FALSE, commit_ok, now)]
                   /\ trail' = [trail EXCEPT ![id] =
                                    Append(@, COMPLETED)
                                    \o FinishedTrail(FALSE, commit_ok)]
                   /\ tasks' = [tasks EXCEPT ![id] = TaskOver]
              ELSE /\ ret' = NoRet
                   /\ records' = [records EXCEPT ![id] = done]
                   /\ trail' = [trail EXCEPT ![id] = Append(@, COMPLETED)]
                   /\ tasks' = [tasks EXCEPT ![id] =
                                    [f EXCEPT !.pc = "post", !.attempt = 0,
                                              !.since = now, !.attempts = 1]]
    /\ request' = NoRequest
    /\ UNCHANGED <<now, environment, os_environ, reply, limiter_vars>>

\* The deliveries to a domain that are under way, other than one.
Rivals(id, domain) ==
    {x \in (At("post") \cup At("sleep")) \ {id} : DomainOf(x) = domain}

\* services.py:231-259 and 299-306: the POST of the current attempt ended,
\* with an HTTP status, a timeout or a client error.
PostReturns(id, outcome, jitter, commit_ok) ==
    /\ id \in At("post")
    /\ LET domain == DomainOf(id)
           f == [tasks[id] EXCEPT !.outcomes = Append(@, outcome)]
       IN  IF IsSuccess(outcome)
           THEN LET s == RecordCallbackSuccess(failed_callbacks,
                                               circuit_breaker_state, domain)
                IN  /\ failed_callbacks' = s.fc
                    /\ circuit_breaker_state' = s.cbs
                    /\ circuit_log' = DictSet(circuit_log, domain,
                                              LogSuccess(LogOf(domain)))
                    /\ ret' = Return(id, domain, TRUE, f, LogOf(domain))
                    /\ records' = [records EXCEPT ![id] =
                                      Finished(@, TRUE, commit_ok, now)]
                    /\ trail' = [trail EXCEPT ![id] =
                                      @ \o FinishedTrail(TRUE, commit_ok)]
                    /\ tasks' = [tasks EXCEPT ![id] = TaskOver]
           ELSE IF ~IsLastAttempt(f.attempt)
           THEN LET delay == BackoffDelay(f.attempt, jitter)
                IN  /\ tasks' = [tasks EXCEPT ![id] =
                                    [f EXCEPT !.pc = "sleep", !.since = now,
                                              !.wake = now + delay,
                                              !.delays = Append(@, delay)]]
                    /\ ret' = NoRet
                    /\ UNCHANGED <<records, trail, circuit_vars>>
           ELSE LET s == RecordCallbackFailure(failed_callbacks,
                                               circuit_breaker_state, domain, now)
                IN  /\ failed_callbacks' = s.fc
                    /\ circuit_breaker_state' = s.cbs
                    /\ circuit_log' = DictSet(circuit_log, domain,
                                              LogFailure(LogOf(domain), now))
                    /\ ret' = Return(id, domain, FALSE, f, LogOf(domain))
                    /\ records' = [records EXCEPT ![id] =
                                      Finished(@, FALSE, commit_ok, now)]
                    /\ trail' = [trail EXCEPT ![id] =
                                      @ \o FinishedTrail(FALSE, commit_ok)]
                    /\ tasks' = [x \in DOMAIN tasks |->
                                    IF x = id THEN TaskOver
                                    ELSE IF x \in Rivals(id, domain)
                                    THEN [tasks[x] EXCEPT !.others = @ + 1]
                                    ELSE tasks[x]]
    /\ request' = NoRequest
    /\ UNCHANGED <<now, environment, os_environ, reply, limiter_vars>>

\* services.py:254 and 201-231: asyncio.sleep ended; the next attempt starts.
Wake(id) ==
    /\ id \in At("sleep")
    /\ now >= tasks[id].wake
    /\ tasks' = [tasks EXCEPT ![id] =
                    [@ EXCEPT !.pc = "post", !.attempt = @ + 1,
                              !.attempts = @ + 1, !.since = now,
                              !.gaps = Append(@, now - tasks[id].since)]]
    /\ ret' = NoRet
    /\ request' = NoRequest
    /\ UNCHANGED <<now, environment, os_environ, records, reply, trail, limiter_vars,
                   circuit_vars>>

----------------------------------------------------------------------------
(* The clock.                                                              *)

\* One second passes (the rate limiter alone).
SecondPasses ==
    /\ now' = now + 10
    /\ ret' = NoRet
    /\ request' = NoRequest
    /\ UNCHANGED <<environment, os_environ, limiter_vars, ledger_vars, circuit_vars>>

\* Time passes while coroutines wait for the network or sleep. A task that
\* can run does so first (starting a task and the work take less than a tick),
\* a sleep that is over ends before the clock moves again, and no POST
\* outlives its total timeout.
Tick(d) ==
    /\ At("scheduled") \cup At("work") = {}
    /\ At("post") \cup At("sleep") # {}
    /\ \A id \in At("sleep") : tasks[id].wake > now
    /\ \A id \in At("post") : now + d - tasks[id].since <= ClientTimeoutTotal
    /\ now' = now + d
    /\ ret' = NoRet
    /\ request' = NoRequest
    /\ UNCHANGED <<environment, os_environ, limiter_vars, ledger_vars, circuit_vars>>

\* Time passes while no task is under way.
Idle(d) ==
    /\ InFlight = {}
    /\ now' = now + d
    /\ ret' = NoRet
    /\ request' = NoRequest
    /\ UNCHANGED <<environment, os_environ, limiter_vars, ledger_vars, circuit_vars>>

----------------------------------------------------------------------------
(* The state after construction.                                           *)

InitWith(envs, limits, windows) ==
    /\ now = 0
    /\ environment \in envs
    /\ os_environ = environment
    /\ \E m \in limits, w \in windows :
          rate_limiter = [max_requests |-> m, window_seconds |-> w,
                          requests |-> EmptyDict]
    /\ records = EmptyDict
    /\ tasks = EmptyDict
    /\ failed_callbacks = EmptyDict
    /\ circuit_breaker_state = EmptyDict
    /\ reply = NoReply
    /\ accepted = [c \in Clients |-> <<>>]
    /\ admit = NoAdmit
    /\ refused = {}
    /\ trail = EmptyDict
    /\ circuit_log = EmptyDict
    /\ ret = NoRet
    /\ request = NoRequest

\* A call of rate_limiter.is_allowed on its own.
IsAllowed(client_ip) ==
    /\ is_allowed(client_ip)
    /\ ret' = NoRet
    /\ request' = NoRequest
    /\ UNCHANGED <<now, environment, os_environ, ledger_vars, circuit_vars>>

\* Whether one more request is taken: max_records rows at most.
Room(max_records) == Cardinality(DOMAIN records) < max_records

SomeClient == CHOOSE c \in Clients : TRUE
PublicUrl == Url("https", "example.com", None)

----------------------------------------------------------------------------
(* SpecRate: the rate limiter alone, called for two clients while the      *)
(* clock advances by seconds.                                              *)

InitRate == InitWith({"production"}, 1..MaxLimit, 1..MaxWindow)

\* The number of accepted calls, all clients together.
RECURSIVE TotalAccepted(_)
TotalAccepted(cs) ==
    IF cs = {} THEN 0
    ELSE LET c == CHOOSE x \in cs : TRUE
         IN  Len(accepted[c]) + TotalAccepted(cs \ {c})

NextRate ==
    \/ \E c \in Clients : TotalAccepted(Clients) < MaxAccepted /\ IsAllowed(c)
    \/ SecondPasses /\ now' <= MaxSecondsRate * 10

SpecRate == InitRate /\ [][NextRate]_vars

----------------------------------------------------------------------------
(* SpecCircuit: deliveries to one domain, one after the other, that succeed *)
(* or fail, with pauses around the reset timeout of the circuit. Time      *)
(* passes during the sleeps and between deliveries; the statistics are     *)
(* read when the reading resets a circuit.                                 *)

InitCircuit == InitWith({"development"}, {MaxLimit}, {MaxWindow})

CircuitOutcomes == {Response(200), Response(500)}

NextCircuit ==
    \/ InFlight = {} /\ Room(MaxRecordsCircuit)
          /\ AsyncEndpoint(SomeClient, TRUE, PublicUrl)
    \/ \E id \in DOMAIN tasks : TaskStart(id)
    \/ \E id \in DOMAIN tasks : WorkReturns(id, TRUE)
    \/ \E id \in DOMAIN tasks, o \in CircuitOutcomes :
          PostReturns(id, o, JitterMin, TRUE)
    \/ \E id \in DOMAIN tasks : Wake(id)
    \/ At("sleep") # {} /\ Tick(CoarseStep) /\ now' <= MaxTimeCircuit
    \/ \E d \in {circuit_breaker_reset_timeout, circuit_breaker_reset_timeout + 1} :
          failed_callbacks # EmptyDict /\ Idle(d) /\ now' <= MaxTimeCircuit
    \/ GetStats /\ circuit_breaker_state' # circuit_breaker_state

SpecCircuit == InitCircuit /\ [][NextCircuit]_vars

----------------------------------------------------------------------------
(* SpecLedger: sync and async requests, up to MaxInFlight tasks at a time, *)
(* under every outcome of the work, of the delivery and of the commits.    *)

InitLedger == InitWith({"development"}, {MaxLimit}, {MaxWindow})

LedgerOutcomes == {Response(200), Response(500)}

NextLedger ==
    \/ \E valid \in BOOLEAN, work \in WorkOutcomes, commit_ok \in BOOLEAN :
          Room(MaxRecordsLedger) /\ SyncEndpoint(SomeClient, valid, work, commit_ok)
    \/ \E valid \in BOOLEAN :
          /\ Room(MaxRecordsLedger)
          /\ Cardinality(InFlight) < MaxInFlight
          /\ AsyncEndpoint(SomeClient, valid, PublicUrl)
    \/ \E id \in DOMAIN tasks : TaskStart(id)
    \/ \E id \in DOMAIN tasks : WorkRaises(id)
    \/ \E id \in DOMAIN tasks, commit_ok \in BOOLEAN : WorkReturns(id, commit_ok)
    \/ \E id \in DOMAIN tasks, o \in LedgerOutcomes, commit_ok \in BOOLEAN :
          PostReturns(id, o, JitterMin, commit_ok)
    \/ \E id \in DOMAIN tasks : Wake(id)
    \/ At("sleep") # {} /\ Tick(CoarseStep) /\ now' <= MaxTimeLedger

SpecLedger == InitLedger /\ [][NextLedger]_vars

----------------------------------------------------------------------------
(* SpecDeliver: one delivery at a time under every outcome of each POST    *)
(* and the extreme jitters, the clock advancing by tenths of a second      *)
(* during the sleeps.                                                      *)

InitDeliver == InitWith({"development"}, {MaxLimit}, {MaxWindow})

DeliverOutcomes ==
    {Response(200), Response(204), Response(500), TimeoutError, ClientError}

NextDeliver ==
    \/ InFlight = {} /\ Room(MaxRecordsDeliver)
          /\ AsyncEndpoint(SomeClient, TRUE, PublicUrl)
    \/ \E id \in DOMAIN tasks : TaskStart(id)
    \/ \E id \in DOMAIN tasks : WorkReturns(id, TRUE)
    \/ \E id \in DOMAIN tasks, o \in DeliverOutcomes, jitter \in {JitterMin, JitterMax} :
          PostReturns(id, o, jitter, TRUE)
    \/ \E id \in DOMAIN tasks : Wake(id)
    \/ At("sleep") # {} /\ Tick(1) /\ now' <= MaxTimeDeliver

SpecDeliver == InitDeliver /\ [][NextDeliver]_vars

----------------------------------------------------------------------------
(* SpecEgress: async requests with callback URLs of every kind, in both    *)
(* deployment modes, and the deliveries of those that are accepted.        *)

InitEgress == InitWith({"development", "production"}, {MaxLimit}, {MaxWindow})

EgressUrls ==
    {Url("https", "example.com", None),
     Url("http", "127.0.0.1", None),
     Url("http", "169.254.169.254", None),
     Url("ftp", "evil.com", None),
     Url("file", None, None),
     Url("http", "localhost", "8080"),
     Url("http", "10.0.0.7", None),
     Url("http", "metadata.google.internal", None),
     Url("https", "metadata.azure.com", None)}

EgressOutcomes == {Response(200), Response(500)}

NextEgress ==
    \/ \E valid \in BOOLEAN, url \in EgressUrls :
          /\ Room(MaxRecordsEgress)
          /\ AsyncEndpoint(SomeClient, valid, url)
    \/ \E id \in DOMAIN tasks : TaskStart(id)
    \/ \E id \in DOMAIN tasks : WorkReturns(id, TRUE)
    \/ \E id \in DOMAIN tasks, o \in EgressOutcomes :
          PostReturns(id, o, JitterMin, TRUE)
    \/ \E id \in DOMAIN tasks : Wake(id)
    \/ At("sleep") # {} /\ Tick(CoarseStep)

SpecEgress == InitEgress /\ [][NextEgress]_vars

----------------------------------------------------------------------------
(* SpecIngress: one client calling both endpoints in both deployment modes *)
(* while the clock advances by seconds; the deliveries succeed at once.    *)

InitIngress ==
    InitWith({"development", "production"}, 1..MaxLimit, 1..MaxWindow)

NextIngress ==
    \/ \E valid \in BOOLEAN, work \in WorkOutcomes :
          /\ Room(MaxRecordsIngress)
          /\ SyncEndpoint(SomeClient, valid, work, TRUE)
    \/ \E valid \in BOOLEAN :
          /\ Room(MaxRecordsIngress)
          /\ AsyncEndpoint(SomeClient, valid, PublicUrl)
    \/ \E id \in DOMAIN tasks : TaskStart(id)
    \/ \E id \in DOMAIN tasks : WorkReturns(id, TRUE)
    \/ \E id \in DOMAIN tasks : PostReturns(id, Response(200), JitterMin, TRUE)
    \/ SecondPasses /\ now' <= MaxSecondsIngress * 10

SpecIngress == InitIngress /\ [][NextIngress]_vars

----------------------------------------------------------------------------
(* SpecLive: the background tasks under a fair event loop. Every coroutine *)
(* that can run is run, every session.post ends (its total timeout bounds  *)
(* it) and the clock moves on while coroutines wait.                       *)

InitLive == InitWith({"development"}, {MaxLimit}, {MaxWindow})

LiveOutcomes == {Response(200), TimeoutError}

\* The work of a task ends: it raises or returns.
WorkEnds(id) ==
    \/ WorkRaises(id)
    \/ \E commit_ok \in BOOLEAN : WorkReturns(id, commit_ok)

\* The POST of a task ends.
PostEnds(id) ==
    \E o \in LiveOutcomes, commit_ok \in BOOLEAN :
       PostReturns(id, o, JitterMin, commit_ok)

NextLive ==
    \/ \E valid \in BOOLEAN :
          /\ Room(MaxRecordsLive)
          /\ AsyncEndpoint(SomeClient, valid, PublicUrl)
    \/ \E id \in DOMAIN tasks : TaskStart(id)
    \/ \E id \in DOMAIN tasks : WorkEnds(id)
    \/ \E id \in DOMAIN tasks : PostEnds(id)
    \/ \E id \in DOMAIN tasks : Wake(id)
    \/ Tick(CoarseStep)

\* asyncio runs every ready coroutine; aiohttp ends every POST within
\* ClientTimeout(total=30); time passes.
FairLoop ==
    /\ \A id \in 1..MaxRecordsLive :
          /\ WF_vars(TaskStart(id))
          /\ WF_vars(WorkEnds(id))
          /\ WF_vars(PostEnds(id))
          /\ WF_vars(Wake(id))
    /\ WF_vars(Tick(CoarseStep))

SpecLive == InitLive /\ [][NextLive]_vars /\ FairLoop

----------------------------------------------------------------------------
(* SpecKey: deliveries, one after the other, to two services of one host   *)
(* that differ in scheme and port.                                         *)

InitKey == InitWith({"development"}, {MaxLimit}, {MaxWindow})

KeyUrls ==
    {Url("http", "example.com", "8080"), Url("https", "example.com", "9090")}

KeyOutcomes == {Response(200), Response(500)}

NextKey ==
    \/ \E url \in KeyUrls :
          /\ InFlight = {}
          /\ Room(MaxRecordsKey)
          /\ AsyncEndpoint(SomeClient, TRUE, url)
    \/ \E id \in DOMAIN tasks : TaskStart(id)
    \/ \E id \in DOMAIN tasks : WorkReturns(id, TRUE)
    \/ \E id \in DOMAIN tasks, o \in KeyOutcomes : PostReturns(id, o, JitterMin, TRUE)
    \/ \E id \in DOMAIN tasks : Wake(id)
    \/ At("sleep") # {} /\ Tick(CoarseStep)

SpecKey == InitKey /\ [][NextKey]_vars

----------------------------------------------------------------------------
(* SpecMode: async requests while the value of ENVIRONMENT in the process  *)
(* environment is changed after startup.                                   *)

InitMode == InitWith({"development", "production"}, {MaxLimit}, {MaxWindow})

Modes == {"development", "production"}

ModeUrls ==
    {Url("https", "example.com", None),
     Url("http", "127.0.0.1", None),
     Url("http", "localhost", "8080")}

\* os.environ['ENVIRONMENT'] is given another value while the server runs.
Setenv(value) ==
    /\ value # os_environ
    /\ os_environ' = value
    /\ ret' = NoRet
    /\ request' = NoRequest
    /\ UNCHANGED <<now, environment, limiter_vars, ledger_vars, circuit_vars>>

NextMode ==
    \/ \E value \in Modes : Setenv(value)
    \/ \E url \in ModeUrls :
          /\ Room(MaxRecordsMode)
          /\ AsyncEndpoint(SomeClient, TRUE, url)
    \/ \E work \in WorkOutcomes :
          /\ Room(MaxRecordsMode)
          /\ SyncEndpoint(SomeClient, TRUE, work, TRUE)
    \/ \E id \in DOMAIN tasks : TaskStart(id)
    \/ \E id \in DOMAIN tasks : WorkReturns(id, TRUE)
    \/ \E id \in DOMAIN tasks : PostReturns(id, Response(200), JitterMin, TRUE)

SpecMode == InitMode /\ [][NextMode]_vars

----------------------------------------------------------------------------
(* SpecPool: many deliveries to one host at a time. The event loop runs    *)
(* the ready coroutines first in, first out; the receiver answers the      *)
(* POSTs in the order it got them.                                         *)

InitPool == InitWith({"development"}, {MaxLimit}, {MaxWindow})

\* The task that a first-in-first-out loop runs next among those at pc.
First(pc) == {id \in At(pc) : \A other \in At(pc) : id <= other}

NextPool ==
    \/ Room(MaxRecordsPool) /\ AsyncEndpoint(SomeClient, TRUE, PublicUrl)
    \/ \E id \in First("scheduled") : TaskStart(id)
    \/ \E id \in First("work") : WorkReturns(id, TRUE)
    \/ \E id \in First("post") : PostReturns(id, Response(200), JitterMin, TRUE)

SpecPool == InitPool /\ [][NextPool]_vars

----------------------------------------------------------------------------
(* SpecLookup: rows are created, by both endpoints, and looked up by their *)
(* ids and by ids that no row has.                                         *)

InitLookup == InitWith({"development"}, {MaxLimit}, {MaxWindow})

NextLookup ==
    \/ \E work \in WorkOutcomes :
          /\ Room(MaxRecordsLookup)
          /\ SyncEndpoint(SomeClient, TRUE, work, TRUE)
    \/ Room(MaxRecordsLookup) /\ AsyncEndpoint(SomeClient, TRUE, PublicUrl)
    \/ \E id \in DOMAIN tasks : TaskStart(id)
    \/ \E id \in DOMAIN tasks : WorkReturns(id, TRUE)
    \/ \E id \in DOMAIN tasks : PostReturns(id, Response(200), JitterMin, TRUE)
    \/ \E request_id \in 1..(MaxRecordsLookup + 1) : get_request_details(request_id)

SpecLookup == InitLookup /\ [][NextLookup]_vars

----------------------------------------------------------------------------
(* SpecRace: deliveries to one domain, up to MaxInFlight at a time, whose  *)
(* POSTs all fail.                                                         *)

InitRace == InitWith({"development"}, {MaxLimit}, {MaxWindow})

NextRace ==
    \/ /\ Room(MaxRecordsRace)
       /\ Cardinality(InFlight) < MaxInFlight
       /\ AsyncEndpoint(SomeClient, TRUE, PublicUrl)
    \/ \E id \in DOMAIN tasks : TaskStart(id)
    \/ \E id \in DOMAIN tasks : WorkReturns(id, TRUE)
    \/ \E id \in DOMAIN tasks : PostReturns(id, Response(500), JitterMin, TRUE)
    \/ \E id \in DOMAIN tasks : Wake(id)
    \/ At("sleep") # {} /\ Tick(CoarseStep)

SpecRace == InitRace /\ [][NextRace]_vars

----------------------------------------------------------------------------
(* SpecStray: rows are created by both endpoints, and the status update    *)
(* and the background task are called with ids that no row has.            *)

InitStray == InitWith({"development"}, {MaxLimit}, {MaxWindow})

StrayIds == 1..(MaxRecordsStray + 1)

NextStray ==
    \/ \E work \in WorkOutcomes :
          /\ Room(MaxRecordsStray)
          /\ SyncEndpoint(SomeClient, TRUE, work, TRUE)
    \/ Room(MaxRecordsStray) /\ AsyncEndpoint(SomeClient, TRUE, PublicUrl)
    \/ \E id \in DOMAIN tasks : TaskStart(id)
    \/ \E id \in DOMAIN tasks : WorkReturns(id, TRUE)
    \/ \E id \in DOMAIN tasks : PostReturns(id, Response(200), JitterMin, TRUE)
    \/ \E request_id \in StrayIds, status \in {PROCESSING, COMPLETED, FAILED},
          error_message \in {None, "error"} :
          UpdateUnknown(request_id, status, error_message)
    \/ \E request_id \in StrayIds : ProcessUnknown(request_id)

SpecStray == InitStray /\ [][NextStray]_vars

----------------------------------------------------------------------------
(* The rate limiter (SpecRate).                                            *)

\* The accepted calls of client c whose time lies in the window (t - w, t].
AcceptedIn(c, t) ==
    {i \in DOMAIN accepted[c] :
        /\ accepted[c][i] > WindowStart(t, rate_limiter.window_seconds)
        /\ accepted[c][i] <= t}

\* C1: a client never has more than max_requests calls accepted within any
\* trailing window (t - window_seconds, t]; so the call after max_requests
\* accepted ones inside one window is rejected.
C1_RateLimitBound ==
    \A c \in Clients : \A t \in 0..now :
        Cardinality(AcceptedIn(c, t)) <= rate_limiter.max_requests

\* A client that filled its window and was then rejected inside it.
C1_Witness ==
    /\ admit.client # None
    /\ ~admit.allowed
    /\ Cardinality(AcceptedIn(admit.client, now)) = rate_limiter.max_requests

\* C2: a call made when fewer than max_requests accepted calls of the client
\* lie in the trailing window is accepted, whatever was rejected before.
C2_RateLimitRecovery ==
    [][\A c \in Clients :
          (/\ admit' # admit
           /\ admit'.client = c
           /\ Cardinality(AcceptedIn(c, now)) < rate_limiter.max_requests)
          => admit'.allowed]_vars

\* A client that was rejected and later accepted again.
C2_Witness ==
    /\ admit.client # None
    /\ admit.allowed
    /\ admit.client \in refused

----------------------------------------------------------------------------
(* The circuit breaker (SpecCircuit). ret holds the return of send_callback *)
(* in the state that follows it.                                           *)

Returned == ret.id # 0
\* The call made network attempts.
Attempted == Returned /\ ret.attempts > 0
\* The call returned False without a network attempt.
ShortCircuited == Returned /\ ~ret.result /\ ret.attempts = 0

\* The last failed delivery was at most the reset timeout before the call.
RecentFailure ==
    ret.call.age >= 0 /\ ret.call.age <= circuit_breaker_reset_timeout

\* The circuit of a domain is closed at the present time.
ClosedNow(domain) ==
    ~IsCircuitOpen(failed_callbacks, circuit_breaker_state, domain, now).open

C4_SuccessClears ==
    /\ \A d \in DOMAIN circuit_log :
          circuit_log[d].ok =>
             d \notin DOMAIN failed_callbacks \cup DOMAIN circuit_breaker_state
    /\ (Attempted /\ ~ret.result /\ ret.prev_ok /\ ret.others = 0)
          => /\ failed_callbacks[ret.domain] = 1
             /\ ret.domain \in DOMAIN circuit_breaker_state

\* A failure that follows a success which had ended earlier failures.
C4_Witness ==
    /\ Attempted /\ ~ret.result /\ ret.prev_ok
    /\ ret.cleared > 1
    /\ failed_callbacks[ret.domain] = 1

\* The last failure the program recorded for the domain was older than the
\* reset timeout when send_callback was called.
Stale == Returned /\ ret.call.elapsed > circuit_breaker_reset_timeout

\* C5 as stated: a send_callback for a domain whose recorded last failure is
\* older than the reset timeout clears the failure count before its
\* attempts, whatever the count was; if the call fails the count is 1 and
\* the circuit closed.
C5_TimeoutReset_Original ==
    Stale =>
       /\ ret.call.after = 0
       /\ (Attempted /\ ~ret.result /\ ret.others = 0)
             => failed_callbacks[ret.domain] = 1 /\ ClosedNow(ret.domain)

\* C5 amended: such a call is never refused; it clears the failure count
\* only when the count had reached circuit_breaker_threshold, and then a
\* failing call leaves the count at 1 and the circuit closed; a count below
\* the threshold is kept, and a failing call adds 1 to it (no other delivery
\* to the domain failing meanwhile).
C5_TimeoutReset ==
    Stale =>
       /\ Attempted /\ ~ret.call.open
       /\ ret.call.before >= circuit_breaker_threshold => ret.call.after = 0
       /\ ret.call.before < circuit_breaker_threshold
             => ret.call.after = ret.call.before
       /\ (~ret.result /\ ret.others = 0)
             => /\ failed_callbacks[ret.domain] = ret.call.after + 1
                /\ ret.call.before >= circuit_breaker_threshold
                      => ClosedNow(ret.domain)

\* An open circuit whose timeout ran out: the call resets it, fails, and
\* leaves the count at 1.
C5_Witness ==
    /\ Stale /\ Attempted /\ ~ret.result
    /\ ret.call.before >= circuit_breaker_threshold
    /\ failed_callbacks[ret.domain] = 1

----------------------------------------------------------------------------
(* The lifecycle of a row (SpecLedger). trail[id] is the sequence of       *)
(* statuses the row of request id was given.                               *)

\* The transition graph of the specification; the last two edges are for
\* async rows only.
LifecycleEdges(mode) ==
    {<<PENDING, PROCESSING>>, <<PROCESSING, COMPLETED>>, <<PROCESSING, FAILED>>}
    \cup (IF mode = ASYNC
          THEN {<<COMPLETED, CALLBACK_SENT>>, <<COMPLETED, CALLBACK_FAILED>>}
          ELSE {})

IsLifecyclePath(path, mode) ==
    /\ path # <<>>
    /\ path[1] = PENDING
    /\ \A i \in 1..(Len(path) - 1) :
          <<path[i], path[i + 1]>> \in LifecycleEdges(mode)

\* C6 as stated: under every outcome of the work, of the delivery and of the
\* commits, the statuses a row takes are a path of the graph
\* pending -> processing -> {completed | failed},
\* completed -> {callback_sent | callback_failed} (async only).
C6_LifecycleMonotone ==
    \A id \in DOMAIN trail : IsLifecyclePath(trail[id], records[id].mode)

\* C7 as stated: once completed_at of a row is set, no later transition
\* changes it.
C7_CompletedAtOnce ==
    [][\A id \in DOMAIN records :
          records[id].completed_at # -1
             => records'[id].completed_at = records[id].completed_at]_vars

----------------------------------------------------------------------------
(* Retries, backoff and the success signal (SpecDeliver).                  *)

\* A response with a 2xx status.
Is2xx(outcome) ==
    outcome.kind = "response" /\ outcome.status >= 200 /\ outcome.status <= 299

NoAttempt2xx(outcomes) == \A i \in DOMAIN outcomes : ~Is2xx(outcomes[i])

\* C8: a send_callback made while the circuit is closed, none of whose
\* attempts is answered 2xx, makes exactly max_retries attempts and returns
\* False; no call makes more than max_retries attempts.
C8_RetryCount ==
    /\ \A id \in DOMAIN tasks : tasks[id].attempts <= max_retries
    /\ (Returned /\ ~ret.call.open /\ NoAttempt2xx(ret.outcomes))
          => /\ ~ret.result
             /\ ret.attempts = max_retries
             /\ Len(ret.outcomes) = max_retries

\* A call that met an HTTP error, a timeout and a client error.
C8_Witness ==
    /\ Returned /\ ~ret.result
    /\ ret.attempts = max_retries
    /\ ret.outcomes = <<Response(500), TimeoutError, ClientError>>

\* The waits of a call: those asked of asyncio.sleep and those measured.
WaitsOk(delays, gaps) ==
    /\ \A k \in DOMAIN delays : delays[k] >= retry_delay * (2 ^ (k - 1))
    /\ \A k \in DOMAIN gaps : gaps[k] >= delays[k]
    /\ \A k \in 1..(Len(gaps) - 1) : gaps[k] < gaps[k + 1]
    /\ \A k \in 1..(Len(delays) - 1) : delays[k] < delays[k + 1]
    /\ Len(delays) <= max_retries - 1
    /\ Len(gaps) <= Len(delays)

\* C9: the wait between attempt k and attempt k + 1 of a call (k from 0) is
\* at least retry_delay * 2^k, the waits grow strictly, and the last attempt
\* is followed by no wait.
C9_Backoff ==
    /\ \A id \in DOMAIN tasks :
          WaitsOk(tasks[id].delays, tasks[id].gaps)
    /\ Returned
          => /\ WaitsOk(ret.delays, ret.gaps)
             /\ Attempted
                   => /\ Len(ret.delays) = ret.attempts - 1
                      /\ Len(ret.gaps) = ret.attempts - 1

\* A call that waited the longest first wait and the shortest second wait.
C9_Witness ==
    /\ Returned
    /\ Len(ret.gaps) = max_retries - 1
    /\ ret.gaps[1] = retry_delay + JitterMax
    /\ ret.gaps[2] = retry_delay * 2 + JitterMin

\* C10 as stated: an attempt succeeds if and only if it is answered 2xx:
\* a 2xx answer ends the call at once with True (no attempt follows one),
\* and any other outcome is a failed attempt.
C10_SuccessSignal ==
    /\ \A id \in DOMAIN tasks : NoAttempt2xx(tasks[id].outcomes)
    /\ Attempted
          => (ret.result <=> Is2xx(ret.outcomes[Len(ret.outcomes)]))

----------------------------------------------------------------------------
(* The validation of callback URLs (SpecEgress). request holds the request *)
(* an endpoint received, and reply its answer, in the state that follows.  *)

\* An async request whose data is valid and which the limiter let through.
AsyncAsked ==
    request.endpoint = "async" /\ request.valid /\ reply.code # 429

\* The callback URLs strict mode is to refuse: a scheme other than http(s),
\* a blocklisted hostname, a loopback, private or link-local literal IP.
StrictRefuses(url) ==
    \/ url.scheme \notin {"http", "https"}
    \/ url.host \in {"localhost", "127.0.0.1", "0.0.0.0", "::1",
                     "metadata.google.internal"}
    \/ url.host \in {"127.0.0.1", "10.0.0.7", "169.254.169.254"}

\* The hostnames of the cloud-metadata services.
MetadataHosts ==
    {"169.254.169.254", "metadata.google.internal", "metadata.azure.com"}

\* C11 as stated: in production an async request whose callback URL has a
\* scheme other than http(s), a blocklisted hostname or a loopback, private
\* or link-local IP is answered 400, and https://example.com is accepted.
C11_StrictEgress ==
    (AsyncAsked /\ environment = "production")
       => /\ StrictRefuses(request.url) => reply.code = 400
          /\ request.url = PublicUrl => reply.code = 200

\* C12: in every deployment mode an async request whose callback hostname is
\* a cloud-metadata address is refused, and no row and no task is created.
C12_MetadataBlocked ==
    [][(request'.endpoint = "async" /\ request'.url.host \in MetadataHosts)
          => /\ reply'.code \in {400, 422, 429}
             /\ records' = records
             /\ tasks' = tasks]_vars

\* The metadata address is refused in development by the metadata rule.
C12_Witness ==
    /\ AsyncAsked
    /\ environment = "development"
    /\ request.url.host = "169.254.169.254"
    /\ reply.code = 400
    /\ reply.detail = "METADATA_BLOCKED"

\* The hosts permissive mode lets through although strict mode refuses them.
InternalHosts == {"localhost", "127.0.0.1", "10.0.0.7"}

\* C13: outside production an http(s) callback URL to localhost, 127.0.0.1
\* or a private IP that is no metadata address is accepted, and a pending
\* row holding that URL is created.
C13_PermissiveMode ==
    (/\ AsyncAsked
     /\ environment # "production"
     /\ request.url.scheme \in {"http", "https"}
     /\ request.url.host \in InternalHosts \ MetadataHosts)
       => /\ reply.code = 200
          /\ reply.request_id \in DOMAIN records
          /\ records[reply.request_id].status = PENDING
          /\ records[reply.request_id].callback_url = request.url
          /\ reply.request_id \in At("scheduled")

\* A callback to the loopback address accepted in development.
C13_Witness ==
    /\ AsyncAsked
    /\ environment = "development"
    /\ request.url.host = "127.0.0.1"
    /\ reply.code = 200

\* C14: an async request that is refused leaves the rows, the tasks and the
\* circuit breaker as they were; every task, and so every network attempt,
\* belongs to the row of an accepted async request.
C14_ValidateBeforePersist ==
    [][/\ (request'.endpoint = "async" /\ reply'.code # 200)
             => UNCHANGED <<records, tasks, trail, failed_callbacks,
                            circuit_breaker_state>>
       /\ \A id \in DOMAIN tasks' :
             id \in DOMAIN records' /\ records'[id].mode = ASYNC]_vars

\* A private address refused in production after a row was created.
C14_Witness ==
    /\ AsyncAsked
    /\ reply.code = 400
    /\ reply.detail = "PRIVATE_IP_BLOCKED"
    /\ records # EmptyDict

----------------------------------------------------------------------------
(* The gate in front of the endpoints (SpecIngress: one client).           *)

\* The rows created in the window that ends at time t.
CreatedIn(t) ==
    {id \in DOMAIN records :
        records[id].created_at > WindowStart(t, rate_limiter.window_seconds)}

\* C15 as stated: in production and in development alike, a request to
\* /sync or /async of a client that had max_requests requests accepted in
\* the current window is answered 429.
C15_GateEveryMode ==
    [][(/\ request'.endpoint \in {"sync", "async"}
        /\ Cardinality(CreatedIn(now)) >= rate_limiter.max_requests)
          => reply'.code = 429]_vars

----------------------------------------------------------------------------
(* The acknowledgement and the background task (SpecCircuit).              *)

\* The acknowledgement of the async request that created row id.
Ack(id) == Reply(200, "accepted", id)

\* C17: when an async request is acknowledged (status accepted, with the
\* request_id) its task has not started: the row is pending and no attempt
\* was made; and no step of a task, whatever the outcome of the delivery,
\* changes the response the caller received.
C17_FireAndForget ==
    [][/\ (request'.endpoint = "async" /\ reply'.code = 200)
             => /\ reply' = Ack(reply'.request_id)
                /\ reply'.request_id \in DOMAIN tasks' \ DOMAIN tasks
                /\ tasks'[reply'.request_id].pc = "scheduled"
                /\ tasks'[reply'.request_id].attempts = 0
                /\ records'[reply'.request_id].status = PENDING
       /\ tasks' # tasks /\ DOMAIN tasks' = DOMAIN tasks => reply' = reply]_vars

\* A delivery refused by the open circuit, after the request was
\* acknowledged; the acknowledgement stands.
C17_Witness ==
    /\ ShortCircuited
    /\ reply = Ack(ret.id)
    /\ records[ret.id].status = CALLBACK_FAILED

----------------------------------------------------------------------------
(* The final status of a row (SpecLedger).                                 *)

\* C18 as stated: when send_callback has returned for an async row, the
\* row's status is callback_sent if it returned True and callback_failed if
\* it returned False.
C18_DeliveryRecorded ==
    Returned =>
       records[ret.id].status =
          IF ret.result THEN CALLBACK_SENT ELSE CALLBACK_FAILED

CallbackStatuses == {CALLBACK_SENT, CALLBACK_FAILED}

\* The rows a step created on the sync path.
SyncCreated == {id \in DOMAIN records' \ DOMAIN records : records'[id].mode = SYNC}

\* A sync row never changes once its request was answered, has no task, and
\* never went through callback_sent or callback_failed.
SyncRowsSettled ==
    \A id \in DOMAIN records :
       records[id].mode = SYNC
          => /\ records'[id] = records[id]
             /\ id \notin DOMAIN tasks'
             /\ \A i \in DOMAIN trail'[id] : trail'[id][i] \notin CallbackStatuses

----------------------------------------------------------------------------
(* Termination of the background tasks (SpecLive).                         *)

TerminalStatuses == {FAILED, CALLBACK_SENT, CALLBACK_FAILED}

\* C20: under a fair event loop, with every POST bounded by its timeout,
\* every row of an accepted async request eventually has one of the
\* statuses failed, callback_sent, callback_failed.
C20_EventuallyTerminal ==
    \A id \in 1..MaxRecordsLive :
       (id \in DOMAIN records /\ records[id].mode = ASYNC)
          ~> (id \in DOMAIN records /\ records[id].status \in TerminalStatuses)

\* A row that reached callback_failed after three attempts and two sleeps,
\* its task being over.
C20_Witness ==
    /\ Returned
    /\ ~ret.result
    /\ ret.attempts = max_retries
    /\ Len(ret.gaps) = max_retries - 1
    /\ records[ret.id].status = CALLBACK_FAILED
    /\ ret.id \in At("done")

----------------------------------------------------------------------------
(* One delivery per request (SpecLedger).                                  *)

\* How far the coroutine of a task has got.
PcRank(pc) ==
    CASE pc = "scheduled" -> 0
      [] pc = "work" -> 1
      [] pc \in {"post", "sleep"} -> 2
      [] pc = "done" -> 3

\* C21: a task is added only together with its row, a task never goes back
\* (so send_callback, called on leaving the work, is called at most once for
\* a row and returns at most once), and a call never makes more than
\* max_retries attempts.
C21_OneAttemptSequence ==
    [][/\ \A id \in DOMAIN tasks' :
             IF id \in DOMAIN tasks
             THEN /\ PcRank(tasks'[id].pc) >= PcRank(tasks[id].pc)
                  /\ tasks'[id].attempts >= tasks[id].attempts
                        \/ tasks'[id].pc = "done"
                  /\ tasks'[id].attempts <= max_retries
             ELSE /\ id \notin DOMAIN records
                  /\ tasks'[id].pc = "scheduled"
       /\ (ret'.id # 0)
             => /\ tasks[ret'.id].pc \in {"work", "post"}
                /\ tasks'[ret'.id].pc = "done"
                /\ ret'.attempts <= max_retries]_vars

\* A delivery that used its three attempts is over, and the server has
\* gone on to another request.
C21_Witness ==
    /\ ~Returned
    /\ request.endpoint = "async"
    /\ \E id \in At("done") :
          /\ records[id].status = CALLBACK_FAILED
          /\ records[id].error_message = "Callback failed after 3 attempts"

----------------------------------------------------------------------------
(* The reason codes of the URL validation (SpecEgress).                    *)

\* C22 as stated: an async request whose callback URL has a scheme other
\* than http and https is refused with the reason code INVALID_SCHEME.
C22_InvalidScheme ==
    (AsyncAsked /\ request.url.scheme \notin {"http", "https"})
       => reply.code = 400 /\ reply.detail = "INVALID_SCHEME"

----------------------------------------------------------------------------
(* The key of the circuit breaker (SpecKey).                               *)

\* The failure count the circuit breaker holds for the callback URL of a row.
FailureCount(id) == DictGet(failed_callbacks, DomainOf(id), 0)

\* C23 as stated: the circuit breaker is keyed by the hostname alone: two
\* callback URLs with the same hostname, whatever their schemes and ports,
\* have the same failure count.
C23_KeyIsHostname ==
    \A a, b \in DOMAIN records :
       records[a].callback_url.host = records[b].callback_url.host
          => FailureCount(a) = FailureCount(b)

----------------------------------------------------------------------------
(* The statistics of the circuit breaker (SpecCircuit).                    *)

\* C24 as stated: a read of the statistics leaves the failure count and the
\* time of the last failure of every domain as they were.
C24_StatsReadOnly ==
    [][request'.endpoint = "stats"
          => /\ failed_callbacks' = failed_callbacks
             /\ circuit_breaker_state' = circuit_breaker_state]_vars

----------------------------------------------------------------------------
(* The deployment mode (SpecMode).                                         *)

\* C25 as stated: the URL validation and the rate-limit gate both act under
\* the mode read at startup, whatever value ENVIRONMENT has been given
\* since: an async request that passed the gate and the body validation is
\* accepted exactly when the startup mode lets its callback URL through.
C25_ModeFixedAtStartup ==
    [][(/\ request'.endpoint = "async"
        /\ request'.valid
        /\ reply'.code # 429
        /\ HttpUrlOk(request'.url))
          => (reply'.code = 200
                 <=> ValidateCallbackUrl(request'.url, environment) = "ok")]_vars

----------------------------------------------------------------------------
(* The outbound connections (SpecPool).                                    *)

\* The deliveries that hold a connection to a host: each session.post under
\* way has one, in a session and a connector of its own.
Connections(host) ==
    {id \in At("post") : records[id].callback_url.host = host}

\* C26 as stated: at every moment at most limit_per_host (10) connections
\* to one host are open, all the deliveries under way taken together.
C26_ConnectionCap ==
    \A id \in DOMAIN records :
       Cardinality(Connections(records[id].callback_url.host)) <= limit_per_host

----------------------------------------------------------------------------
(* The lookup of a request (SpecLookup).                                   *)

\* C27: a lookup of an id that no row has is answered 404, and creates and
\* changes no row (nor any task).
C27_UnknownId ==
    [][request'.endpoint = "details"
          => /\ request'.id \notin DOMAIN records => reply'.code = 404
             /\ UNCHANGED <<records, tasks, trail>>]_vars

\* An id that was never created is looked up while rows exist.
C27_Witness ==
    /\ request.endpoint = "details"
    /\ request.id \notin DOMAIN records
    /\ records # EmptyDict
    /\ reply = Reply(404, "Request not found", 0)

----------------------------------------------------------------------------
(* Concurrent deliveries to one domain (SpecRace, SpecLedger).             *)

\* The circuit of a domain is open at the present time.
OpenNow(domain) ==
    /\ DictGet(failed_callbacks, domain, 0) >= circuit_breaker_threshold
    /\ domain \in DOMAIN circuit_breaker_state
    /\ now - circuit_breaker_state[domain] <= circuit_breaker_reset_timeout

\* The step starts a network attempt for the row id.
StartsAttempt(id) ==
    /\ id \in DOMAIN tasks
    /\ tasks'[id].pc = "post"
    /\ tasks'[id].attempts = tasks[id].attempts + 1

\* C28 as stated: no attempt, first or retry, is started for a domain at a
\* moment when its circuit is open.
C28_NoAttemptWhileOpen ==
    [][\A id \in DOMAIN tasks :
          StartsAttempt(id) => ~OpenNow(DomainOf(id))]_vars


\* The step in which a send_callback call to the domain ends in failure,
\* its attempts used up.
FailsTo(domain) ==
    ret'.id # 0 /\ ret'.domain = domain /\ ~ret'.result /\ ret'.attempts > 0

\* The step in which a send_callback call to the domain ends in success.
SucceedsTo(domain) ==
    ret'.id # 0 /\ ret'.domain = domain /\ ret'.result

\* C29: however the deliveries to a domain are interleaved, each call that
\* ends in failure after its attempts adds exactly one to the domain's
\* failure count, a success removes the count, and no other step changes it
\* but the reset of an expired circuit, which sets it to 0: the count is the
\* number of calls that failed since the last success or reset.
C29_NoLostFailure ==
    [][\A id \in DOMAIN tasks :
          LET domain == DomainOf(id)
              before == DictGet(failed_callbacks, domain, 0)
              after == DictGet(failed_callbacks', domain, 0)
          IN  IF FailsTo(domain) THEN after = before + 1
              ELSE IF SucceedsTo(domain) THEN after = 0
              ELSE after = before \/ (after = 0 /\ OpenNow(domain) = FALSE
                                        /\ before >= circuit_breaker_threshold)]_vars

\* Two deliveries to one domain ran at the same time and both failed: the
\* second to end found one failure made while it ran, and the count is 2.
C29_Witness ==
    /\ Returned
    /\ ~ret.result
    /\ ret.attempts = max_retries
    /\ ret.others = 1
    /\ ret.call.before = 0
    /\ DictGet(failed_callbacks, ret.domain, 0) = 2

----------------------------------------------------------------------------
(* Concurrent calls of the rate limiter (SpecRate).                        *)

\* The last n entries of a sequence.
LastOf(s, n) == SubSeq(s, Len(s) - n + 1, Len(s))

\* C30: however the calls of a client are interleaved, several at one
\* instant included, the deque of the client holds each accepted call that
\* was not pruned exactly once, in order, never more than max_requests of
\* them, and no call is accepted into a window that already holds
\* max_requests accepted calls.
C30_NoLostAdmission ==
    \A c \in Clients :
       LET q == ClientQueue(c)
       IN  /\ Len(q) <= rate_limiter.max_requests
           /\ Len(q) <= Len(accepted[c])
           /\ q = LastOf(accepted[c], Len(q))
           /\ Cardinality(AcceptedIn(c, now)) <= rate_limiter.max_requests

\* Two calls of one client at the same instant were both accepted and both
\* recorded, and a third at that instant was rejected.
C30_Witness ==
    /\ admit.client # None
    /\ ~admit.allowed
    /\ LET q == ClientQueue(admit.client)
       IN  /\ Len(q) = 2
           /\ q[1] = admit.at
           /\ q[2] = admit.at

----------------------------------------------------------------------------
(* What a delivery records in the circuit breaker (SpecDeliver).           *)

\* C31: a failed attempt that is not the last changes neither dictionary;
\* the call that used up its attempts adds exactly one to the failure count
\* of its domain and stamps the time of the failure; a call that succeeds,
\* on whichever attempt, leaves no failure recorded.
C31_CountsCalls ==
    [][\A id \in At("post") :
          LET domain == DomainOf(id)
          IN  /\ tasks'[id].pc = "sleep"
                    => UNCHANGED <<failed_callbacks, circuit_breaker_state>>
              /\ (tasks'[id].pc = "done" /\ ret'.result)
                    => /\ domain \notin DOMAIN failed_callbacks'
                       /\ domain \notin DOMAIN circuit_breaker_state'
              /\ (tasks'[id].pc = "done" /\ ~ret'.result)
                    => /\ ret'.attempts = max_retries
                       /\ failed_callbacks'[domain]
                             = DictGet(failed_callbacks, domain, 0) + 1
                       /\ circuit_breaker_state'[domain] = now]_vars

\* A call that failed three times: one failure is counted.
C31_Witness ==
    /\ Returned
    /\ ~ret.result
    /\ Len(ret.outcomes) = max_retries
    /\ failed_callbacks[ret.domain] = 1
    /\ circuit_breaker_state[ret.domain] = now

----------------------------------------------------------------------------
(* The entries of the circuit breaker (SpecCircuit).                       *)

\* The domains that the statistics list.
Tracked == DOMAIN failed_callbacks \cup DOMAIN circuit_breaker_state

\* C32 as stated: a domain is tracked only from a failure to the next
\* success or timeout reset: a tracked domain has a failure that was neither
\* cleared by a success nor reset; no domain is kept with a count of 0.
C32_RecordLifetime ==
    \A domain \in Tracked :
       /\ DictGet(failed_callbacks, domain, 0) > 0
       /\ domain \in DOMAIN circuit_breaker_state

----------------------------------------------------------------------------
(* The deques of the rate limiter (SpecRate: every step that leaves the    *)
(* clock alone is a call of is_allowed, for the client admit'.client).     *)

\* The timestamps the limiter stores for a client.
Stored(c) == DictGet(rate_limiter.requests, c, <<>>)
\* The same after the step.
StoredAfter(c) == DictGet(rate_limiter'.requests, c, <<>>)

\* C33: a rejected call adds no entry to the deque of its client: the deque
\* after the call is the deque before it less its expired entries, and the
\* record of the accepted calls is as it was.
C33_RejectedNotRecorded ==
    [][(now' = now /\ ~admit'.allowed)
          => /\ StoredAfter(admit'.client)
                   = PopOld(Stored(admit'.client),
                            WindowStart(now, rate_limiter.window_seconds))
             /\ Len(StoredAfter(admit'.client)) <= Len(Stored(admit'.client))
             /\ accepted' = accepted]_vars

\* A call rejected at a time later than every stored timestamp of its
\* client: nothing was stored for it.
C33_Witness ==
    /\ admit.client # None
    /\ ~admit.allowed
    /\ admit.at = now
    /\ Len(Stored(admit.client)) = rate_limiter.max_requests
    /\ \A i \in DOMAIN Stored(admit.client) : Stored(admit.client)[i] < now

\* C36: right after a call of is_allowed for a client at time now, the
\* stored timestamps of the client are in non-decreasing order, lie in
\* (now - window_seconds, now], and are at most max_requests.
C36_RateWindow ==
    (admit.client # None /\ admit.at = now)
       => LET q == Stored(admit.client)
          IN  /\ \A i, j \in DOMAIN q : i <= j => q[i] <= q[j]
              /\ \A i \in DOMAIN q :
                    /\ q[i] > WindowStart(now, rate_limiter.window_seconds)
                    /\ q[i] <= now
              /\ Len(q) <= rate_limiter.max_requests

\* A call that pruned expired timestamps and was accepted into a window it
\* filled.
C36_Witness ==
    /\ admit.client # None
    /\ admit.at = now
    /\ admit.allowed
    /\ Len(Stored(admit.client)) = rate_limiter.max_requests
    /\ Len(accepted[admit.client]) > Len(Stored(admit.client))

\* C37: a call for one client changes the deque of no other client, and its
\* answer follows from the accepted calls of its own client alone: it is
\* accepted exactly when fewer than max_requests of them lie in the window.
C37_ClientIsolation ==
    [][now' = now
          => /\ \A b \in Clients \ {admit'.client} :
                   /\ StoredAfter(b) = Stored(b)
                   /\ accepted'[b] = accepted[b]
             /\ admit'.allowed
                   <=> Cardinality(AcceptedIn(admit'.client, now))
                          < rate_limiter.max_requests]_vars

\* A client is accepted while another one has used up its budget and was
\* rejected.
C37_Witness ==
    /\ admit.client # None
    /\ admit.allowed
    /\ admit.at = now
    /\ \E a \in Clients \ {admit.client} :
          /\ a \in refused
          /\ Cardinality(AcceptedIn(a, now)) = rate_limiter.max_requests

----------------------------------------------------------------------------
(* Calls with an id that no row has (SpecStray).                           *)

\* C34: update_request_status and process_async_callback called with an id
\* that has no row create no row, change no row, start no task and make no
\* delivery.
C34_UnknownIdNoEffect ==
    [][(request'.endpoint \in {"update", "task"}
        /\ request'.id \notin DOMAIN records)
          => /\ records' = records
             /\ tasks' = tasks
             /\ trail' = trail
             /\ ret'.id = 0
             /\ UNCHANGED <<failed_callbacks, circuit_breaker_state>>]_vars

\* A status update for an id that no row has, while rows exist.
C34_Witness ==
    /\ request.endpoint = "update"
    /\ request.id \notin DOMAIN records
    /\ records # EmptyDict

----------------------------------------------------------------------------
(* Work that fails in the background task (SpecLedger).                    *)

\* The step in which the work of a task raises: the row goes from
\* processing to failed.
WorkFails(id) ==
    /\ trail[id][Len(trail[id])] = PROCESSING
    /\ trail'[id] = Append(trail[id], FAILED)

\* C35: when the work of an asynchronous request raises, the row goes from
\* processing to failed with its completion time and an error message, the
\* task ends without a call of send_callback (no delivery returns, no POST
\* was made), and the failure count and last failure time of every domain
\* stay as they were.
C35_NoCallbackForFailedWork ==
    [][\A id \in DOMAIN tasks :
          WorkFails(id)
            => /\ records'[id].status = FAILED
               /\ records'[id].completed_at = now
               /\ records'[id].error_message # None
               /\ records'[id].callback_attempts = 0
               /\ tasks'[id].pc = "done"
               /\ tasks'[id].attempts = 0
               /\ tasks'[id].outcomes = <<>>
               /\ ret'.id = 0
               /\ UNCHANGED <<failed_callbacks, circuit_breaker_state>>]_vars

\* A task ended by failed work while a domain has a failure on record.
C35_Witness ==
    \E id \in DOMAIN tasks :
        /\ trail[id] = <<PENDING, PROCESSING, FAILED>>
        /\ tasks[id].pc = "done"
        /\ records[id].completed_at = now
        /\ ret.id = 0
        /\ failed_callbacks # EmptyDict

----------------------------------------------------------------------------
(* Deliveries refused by an open circuit (SpecCircuit).                    *)

\* C38: a call of send_callback that returns False because the circuit of
\* its domain is open leaves failed_callbacks and circuit_breaker_state as
\* they were, so the time at which the circuit resets is not moved.
C38_ShortCircuitKeepsRecord ==
    [][ShortCircuited'
          => /\ failed_callbacks' = failed_callbacks
             /\ circuit_breaker_state' = circuit_breaker_state
             /\ failed_callbacks'[ret'.domain] = ret'.call.before
             /\ circuit_breaker_state'[ret'.domain] = now - ret'.call.elapsed]_vars

\* A delivery refused some time after the last failure of its domain.
C38_Witness ==
    /\ ShortCircuited
    /\ ret.call.elapsed > 0
    /\ circuit_breaker_state[ret.domain] = now - ret.call.elapsed
    /\ failed_callbacks[ret.domain] >= circuit_breaker_threshold

----------------------------------------------------------------------------
(* The callback_attempts column (SpecLedger, SpecDeliver).                 *)

\* The value of callback_attempts that the status of a row calls for.
AttemptsFor(rec) ==
    IF rec.status = CALLBACK_SENT THEN max_retries ELSE 0

\* C39: callback_attempts is 0 when the row is created and never decreases;
\* a row that ended in callback_sent has callback_attempts = max_retries, and
\* a row that ended in callback_failed or failed still has 0.
C39_AttemptsBookkeeping ==
    [][\A id \in DOMAIN records' :
          /\ records'[id].callback_attempts = AttemptsFor(records'[id])
          /\ id \in DOMAIN records
               => records'[id].callback_attempts >= records[id].callback_attempts
          /\ id \notin DOMAIN records
               => records'[id].callback_attempts = 0]_vars

====
